---- MODULE Spec2Model ----
(***************************************************************************)
(* The per-chain synchronisation state machine of ssss/src/sync.rs:        *)
(* the supervising loop of `run`, and `sync_chain` with its checkpoint     *)
(* recovery, its state_updater_task (the periodic checkpoint writer) and   *)
(* its event consumer (the for_each closure).                              *)
(*                                                                         *)
(* The Store, the event source (eth::SsssPermitter), the Identity and the  *)
(* retry helper are not part of sync.rs; they are modelled at the          *)
(* interface the design document gives them.                               *)
(***************************************************************************)
EXTENDS Integers, Sequences, FiniteSets, TLC

\* ------------------------------------------------------------------ bounds
\* longest event history of a chain
MaxLen == 3
\* most ciphertext/blinding pairs of a SharesPosted event
MaxShares == 2
\* the retry attempt counter saturates here
MaxAttempts == 1

\* ------------------------------------------------------- program constants
\* sleep(Duration::from_millis(1000)) in the supervising loop
RestartDelayMs == 1000
\* ShareId { version: 1 }
ShareVersion == 1
\* .buffered(1)
BufferedSize == 1
\* the block permitter.creation_block() reports
CreationBlock == 100

\* the chain ids `run` can be given
Chains == {1, 2}

\* ------------------------------------------------------------- Option<T>
None == [some |-> FALSE, block |-> 0]
Some(b) == [some |-> TRUE, block |-> b]

\* --------------------------------------------------------------- Identity
\* this node's secret, another recipient's secret, the event's ephemeral key
MySecret == 3
OtherSecret == 4
EphemeralPk == 5
EventNonce == 9

\* Identity::derive_shared_cipher: key agreement, the same key on both sides
derive_shared_cipher(secret, pk) == (secret * pk) % 256

\* what the sender of a SharesPosted event does for one recipient
Encrypt(key, nonce, plain) ==
    [tag |-> <<key, nonce>>, data |-> (plain + key + nonce) % 256]

\* cipher.decrypt_in_place(&nonce, &[], &mut share): authenticated, so it
\* fails unless the ciphertext was made under this key and nonce
decrypt_in_place(cipher, nonce, enc_share) ==
    IF enc_share.tag = <<cipher, nonce>>
    THEN [ok |-> TRUE, share |-> (enc_share.data - cipher - nonce) % 256]
    ELSE [ok |-> FALSE, share |-> 0]

\* ------------------------------------------------------------ compression
\* a well-formed compressed payload starts with this byte
BrotliHeader == 27
Compress(config) == <<BrotliHeader>> \o config
\* brotli_decompressor::BrotliDecompress(&mut config_br, &mut config)
BrotliDecompress(config_br) ==
    IF Len(config_br) >= 1 /\ config_br[1] = BrotliHeader
    THEN [is_err |-> FALSE, config |-> Tail(config_br)]
    ELSE [is_err |-> TRUE, config |-> <<>>]

\* ------------------------------------------------------------------ events
\* eth::Event { index, kind }; every record carries every field
Event(block, kind, identity, config, shares, blindings) ==
    [block |-> block, kind |-> kind, identity |-> identity, config |-> config,
     pk |-> EphemeralPk, nonce |-> EventNonce,
     shares |-> shares, blindings |-> blindings]

ProcessedBlock(b) == Event(b, "ProcessedBlock", 0, <<>>, <<>>, <<>>)
PolicyChange(b, id, config_br) == Event(b, "PolicyChange", id, config_br, <<>>, <<>>)
SharesPosted(b, id, shares, blindings) ==
    Event(b, "SharesPosted", id, <<>>, shares, blindings)

\* the one protocol identity whose policy and shares the events are about
TheIdentity == 1
\* the secret byte sent to the recipient at a position, and the blinding
\* bytes the events may carry
Plain(i) == 6 + i
Blindings == {5, 6}
Recipients == {MySecret, OtherSecret}

\* the aligned share lists of one SharesPosted event: n recipients
SharePairs(n) ==
    { [shares |-> [i \in 1..n |->
                    Encrypt(derive_shared_cipher(r[i], EphemeralPk), EventNonce, Plain(i))],
       blindings |-> b] :
        r \in [1..n -> Recipients], b \in [1..n -> Blindings] }

\* two recipients, this node the second one (position 1)
MineSecond ==
    [shares |-> << Encrypt(derive_shared_cipher(OtherSecret, EphemeralPk), EventNonce, Plain(1)),
                   Encrypt(derive_shared_cipher(MySecret, EphemeralPk), EventNonce, Plain(2)) >>,
     blindings |-> <<5, 6>>]

\* the policy configs there are
Configs == { <<42>> }

\* what an event can be, its block left open
Payload(kind, config, sp) == [kind |-> kind, config |-> config, sp |-> sp]
NoShares == [shares |-> <<>>, blindings |-> <<>>]
SyncPayloads ==
    { Payload("ProcessedBlock", <<>>, NoShares),
      Payload("SharesPosted", <<>>, MineSecond) }
        \cup { Payload("PolicyChange", Compress(config), NoShares) : config \in Configs }
        \cup { Payload("PolicyChange", <<13>> \o config, NoShares) : config \in Configs }
SharePayloads ==
    { Payload("SharesPosted", <<>>, sp) :
        sp \in UNION { SharePairs(n) : n \in 0..MaxShares } }
TailPayloads ==
    { Payload("ProcessedBlock", <<>>, NoShares) }
        \cup { Payload("PolicyChange", Compress(config), NoShares) : config \in Configs }
        \cup { Payload("PolicyChange", <<13>> \o config, NoShares) : config \in Configs }

MkEvent(b, p) ==
    Event(b, p.kind, IF p.kind = "ProcessedBlock" THEN 0 ELSE TheIdentity,
          p.config, p.sp.shares, p.sp.blindings)

\* The blocks the event after history l can be in, when it has payload p:
\* blocks never decrease, the first event is in the creation block,
\* ProcessedBlock@N is the last event of block N, and a block without a
\* marker of its own is closed by the marker of the next block.
NextBlocks(l, p) ==
    IF l = <<>> THEN {CreationBlock}
    ELSE IF l[Len(l)].kind = "ProcessedBlock" THEN {l[Len(l)].block + 1}
    ELSE IF p.kind = "ProcessedBlock" THEN {l[Len(l)].block, l[Len(l)].block + 1}
    ELSE {l[Len(l)].block}

\* the histories that extend l by one event
Extend(l, payloads) ==
    UNION { { Append(l, MkEvent(b, p)) : b \in NextBlocks(l, p) } : p \in payloads }

RECURSIVE LogsOfLen(_, _)
LogsOfLen(n, payloads) ==
    IF n = 0 THEN { <<>> }
    ELSE UNION { Extend(l, payloads) : l \in LogsOfLen(n - 1, payloads) }

SyncLogs == UNION { LogsOfLen(n, SyncPayloads) : n \in 0..MaxLen }
\* one SharesPosted event of any shape, then one other event
ShareLogs ==
    UNION { Extend(l, TailPayloads) : l \in Extend(<<>>, SharePayloads) }

\* the histories of a chain that runs beside another one: a share for this
\* node then the block's marker, or a policy then the block's marker
TwoLogs ==
    { << SharesPosted(CreationBlock, TheIdentity, MineSecond.shares, MineSecond.blindings),
         ProcessedBlock(CreationBlock) >> }
        \cup { << PolicyChange(CreationBlock, TheIdentity, Compress(config)),
                  ProcessedBlock(CreationBlock) >> : config \in Configs }

\* ------------------------------------------------------------------- state
VARIABLES
    chains,             \* the chains `run` was given
    run,                \* where `run` is: called, or returned Ok(())
    log,                \* per chain: the events the event source holds
    chain_state,        \* Store: per chain, Option<ChainState>
    shares,             \* Store: ShareId -> SecretShare
    verifiers,          \* Store: (PermitterLocator, identity) -> (config, index)
    task,               \* per chain: where the spawned loop of `run` is
    sleep_ms,           \* per chain: the delay the loop is sleeping for
    pc,                 \* per chain: where sync_chain is
    start_block,        \* per chain: sync_chain's start_block (of the last pipeline)
    processed_block,    \* per chain: the AtomicU64 shared with the updater
    cursor,             \* per chain: position in log of the next event of the stream
    batch_end,          \* per chain: last position of the batch being flattened
    buffered,           \* per chain: last position of the batches asked of the source
    retry_op,           \* per chain: the write the retry closure holds
    attempts,           \* per chain: attempts of that write so far (saturating)
    put_share,          \* per chain: what the last put_share attempt returned
    state_updater_task, \* per chain: where the spawned updater is
    update_block,       \* per chain: the block the updater loaded for its write
    warned,             \* per chain: the updater sleeps after a write that failed
    from_state,         \* per chain: that pipeline resumed from a persisted ChainState
    applied,            \* per chain: log positions whose handling has completed
    last_exit           \* per chain: how sync_chain last returned

vars == << chains, run, log, chain_state, shares, verifiers, task, sleep_ms, pc,
           start_block, processed_block, cursor, batch_end, buffered,
                    retry_op, attempts, put_share,
           state_updater_task, update_block, warned, from_state, applied,
           last_exit >>

store == << chain_state, shares, verifiers >>

\* ------------------------------------------------------------------- Store
\* Store::update_chain_state(chain, ChainStateUpdate { block })
update_chain_state(states, chain, update) ==
    IF update.some THEN [states EXCEPT ![chain] = Some(update.block)] ELSE states

\* Store::put_share(ShareId, SecretShare) -> bool: stored only when the key is new
put_share_newly(sh, id) == id \notin DOMAIN sh
put_share_store(sh, id, share) ==
    IF put_share_newly(sh, id) THEN sh @@ (id :> share) ELSE sh

\* Store::update_verifier(PermitterLocator, identity, config, index)
update_verifier(vs, locator, identity, config, index) ==
    LET key == [locator |-> locator, identity |-> identity]
        val == [config |-> config, index |-> index]
    IN  IF key \in DOMAIN vs THEN [vs EXCEPT ![key] = val] ELSE vs @@ (key :> val)

\* ------------------------------------------------------------ event source
\* permitter.address, permitter.registry()
PermitterAddress(chain) == 1000 + chain
Registry(chain) == 2000 + chain

\* permitter.events(start_block, None): every event at or after start_block,
\* in order; the position of the first one
StreamStart(l, start) ==
    IF \E i \in 1..Len(l) : l[i].block >= start
    THEN CHOOSE i \in 1..Len(l) :
            /\ l[i].block >= start
            /\ \A j \in 1..(i - 1) : l[j].block < start
    ELSE Len(l) + 1

\* The batches of events(..): a batch is the events of one block. The last
\* position of the batch that holds position i.
BatchEnd(l, i) ==
    CHOOSE j \in i..Len(l) :
        /\ l[j].block = l[i].block
        /\ \A k \in (j + 1)..Len(l) : l[k].block # l[i].block

\* the last position of the n-th batch after the one that ends at position end
RECURSIVE Ahead(_, _, _)
Ahead(l, end, n) ==
    IF n = 0 \/ end >= Len(l) THEN end
    ELSE Ahead(l, BatchEnd(l, end + 1), n - 1)

\* the batches between two positions
BatchesIn(l, from, to) == { l[j].block : j \in from..to }

\* event.index
EventIndex(l, i) == [block |-> l[i].block, log_index |-> i]

\* ------------------------------------------------------- sync_chain, parts
\* Some(ChainState { block }) => block
ResumeFromNext(state) == state.block + 1
ResumeFromCreation(state) == CreationBlock
ResumeFrom(state) == state.block

\* .buffered(1): asked for the batch that holds position i, the stage holds
\* at most BufferedSize batch futures, the one it yields among them; the
\* last position of the batches it has then asked of the source
BufferedThree(l, i) == Ahead(l, BatchEnd(l, i), 2)
Buffered(l, i) == Ahead(l, BatchEnd(l, i), BufferedSize - 1)

\* .map(stream::iter).flatten(), asked for the event at position i while the
\* batch it iterates ends at position end: the batch goes on, or is used up
\* and the next one is taken from the buffered stage (none when the source
\* has no further event)
Flatten(l, end, i) ==
    IF i <= end \/ i > Len(l) THEN end ELSE BatchEnd(l, i)
\* what the buffered stage has asked of the source after that
Poll(l, end, asked, i) ==
    IF i <= end \/ i > Len(l) THEN asked ELSE Buffered(l, i)

\* Arc::new(AtomicU64::new(start_block))
InitialTrackerZero(start) == 0
InitialTrackerNext(start) == start + 1
InitialTracker(start) == start

\* processed_block.store(event.index.block, Ordering::Release)
TrackerStorePrev(ev) == ev.block - 1
TrackerStoreNext(ev) == ev.block + 1
TrackerStore(ev) == ev.block

\* the block the updater puts in its ChainStateUpdate
UpdaterLoadNext(c) == processed_block[c] + 1
\* the block of the event the consumer is at
UpdaterLoadAhead(c) ==
    IF cursor[c] >= 1 /\ cursor[c] <= Len(log[c])
    THEN log[c][cursor[c]].block ELSE processed_block[c]
UpdaterLoad(c) == processed_block[c]

PermitterLocator(chain) == [chain |-> chain, address |-> PermitterAddress(chain)]
\* a ShareId that leaves the chain out of the key
ShareIdOneChain(chain, id) ==
    [identity |-> [chain |-> 1, registry |-> Registry(1), id |-> id],
     version |-> ShareVersion]
ShareId(chain, id) ==
    [identity |-> [chain |-> chain, registry |-> Registry(chain), id |-> id],
     version |-> ShareVersion]

NoShare == [some |-> FALSE, index |-> 0, share |-> 0, blinding |-> 0]
Min(a, b) == IF a <= b THEN a ELSE b

\* shares.zip(blindings).enumerate().find_map(..), scanning from position i
RECURSIVE find_map_from(_, _, _, _, _)
find_map_from(cipher, nonce, sh, bl, i) ==
    IF i >= Min(Len(sh), Len(bl)) THEN NoShare
    ELSE LET d == decrypt_in_place(cipher, nonce, sh[i + 1])
         IN  IF d.ok
             THEN [some |-> TRUE, index |-> i, share |-> d.share, blinding |-> bl[i + 1]]
             ELSE find_map_from(cipher, nonce, sh, bl, i + 1)

\* a scan that keeps the last position that decrypts
RECURSIVE find_last_from(_, _, _, _, _)
find_last_from(cipher, nonce, sh, bl, i) ==
    IF i >= Min(Len(sh), Len(bl)) THEN NoShare
    ELSE LET d == decrypt_in_place(cipher, nonce, sh[i + 1])
             rest == find_last_from(cipher, nonce, sh, bl, i + 1)
         IN  IF rest.some THEN rest
             ELSE IF d.ok
                  THEN [some |-> TRUE, index |-> i, share |-> d.share,
                        blinding |-> bl[i + 1]]
                  ELSE NoShare

maybe_my_share_last(ev) ==
    find_last_from(derive_shared_cipher(MySecret, ev.pk), ev.nonce,
                   ev.shares, ev.blindings, 0)
maybe_my_share(ev) ==
    find_map_from(derive_shared_cipher(MySecret, ev.pk), ev.nonce,
                  ev.shares, ev.blindings, 0)

\* `if BrotliDecompress(..).is_err() { return; }`
SkipPolicyNever(config_br) == FALSE
SkipPolicy(config_br) == BrotliDecompress(config_br).is_err

NoOp == [op |-> "none", identity |-> 0, config |-> <<>>,
         index |-> [block |-> 0, log_index |-> 0],
         share |-> [index |-> 0, share |-> 0, blinding |-> 0]]

\* state_updater_task.abort(): the task is gone
abort_skipped(t) == t
abort(t) == "none"

\* ------------------------------------------------------------ bookkeeping
Set(f, c, v) == [f EXCEPT ![c] = v]

\* a task that holds nothing of a run; start_block and from_state keep
\* telling what the last pipeline of the loop started from
Idle(c, t, exit) ==
    /\ task' = Set(task, c, t)
    /\ sleep_ms' = Set(sleep_ms, c, IF t = "sleep" THEN RestartDelayMs ELSE 0)
    /\ pc' = Set(pc, c, IF t = "sleep" THEN "returned" ELSE "get_chain_state")
    /\ processed_block' = Set(processed_block, c, 0)
    /\ cursor' = Set(cursor, c, 0)
    /\ batch_end' = Set(batch_end, c, 0)
    /\ buffered' = Set(buffered, c, 0)
    /\ retry_op' = Set(retry_op, c, NoOp)
    /\ attempts' = Set(attempts, c, 0)
    /\ put_share' = Set(put_share, c, "none")
    /\ state_updater_task' =
            Set(state_updater_task, c,
                IF exit = "Ok" THEN abort(state_updater_task[c])
                ELSE state_updater_task[c])
    /\ update_block' = Set(update_block, c, 0)
    /\ warned' = Set(warned, c, FALSE)
    /\ last_exit' = Set(last_exit, c, exit)

Running(c) == task[c] = "sync_chain"
Consuming(c) == Running(c) /\ pc[c] \in {"for_each", "update_verifier", "put_share"}

\* -------------------------------------------------------------------- Init
InitWith(cs, logs) ==
    /\ chains = cs
    /\ run = "called"
    /\ log \in [cs -> logs]
    /\ chain_state = [c \in cs |-> None]
    /\ shares = <<>>
    /\ verifiers = <<>>
    /\ task = [c \in cs |-> "none"]
    /\ sleep_ms = [c \in cs |-> 0]
    /\ pc = [c \in cs |-> "get_chain_state"]
    /\ start_block = [c \in cs |-> 0]
    /\ processed_block = [c \in cs |-> 0]
    /\ cursor = [c \in cs |-> 0]
    /\ batch_end = [c \in cs |-> 0]
    /\ buffered = [c \in cs |-> 0]
    /\ retry_op = [c \in cs |-> NoOp]
    /\ attempts = [c \in cs |-> 0]
    /\ put_share = [c \in cs |-> "none"]
    /\ state_updater_task = [c \in cs |-> "none"]
    /\ update_block = [c \in cs |-> 0]
    /\ warned = [c \in cs |-> FALSE]
    /\ from_state = [c \in cs |-> FALSE]
    /\ applied = [c \in cs |-> {}]
    /\ last_exit = [c \in cs |-> "none"]

\* `run` has been called with one chain
Init == InitWith({1}, SyncLogs)
InitShares == InitWith({1}, ShareLogs)
\* `run` has been called with two chains
InitTwo == InitWith(Chains, TwoLogs)

\* --------------------------------------------------------------- sync_chain
\* what sync_chain does once start_block is known: the tracker, the spawned
\* updater, and the event stream requested from start_block
Launch(c, start, resumed) ==
    /\ start_block' = Set(start_block, c, start)
    /\ processed_block' = Set(processed_block, c, InitialTracker(start))
    /\ state_updater_task' = Set(state_updater_task, c, "sleep")
    /\ cursor' = Set(cursor, c, StreamStart(log[c], start))
    /\ batch_end' = Set(batch_end, c,
            Flatten(log[c], StreamStart(log[c], start) - 1, StreamStart(log[c], start)))
    /\ buffered' = Set(buffered, c,
            Poll(log[c], StreamStart(log[c], start) - 1,
                 StreamStart(log[c], start) - 1, StreamStart(log[c], start)))
    /\ pc' = Set(pc, c, "for_each")
    /\ from_state' = Set(from_state, c, resumed)
    /\ UNCHANGED << chains, run, log, store, task, sleep_ms, retry_op, attempts,
                    put_share, update_block, warned, applied, last_exit >>

\* sync_chain returns to the loop of `run`, which goes to sleep
Return(c, exit) ==
    /\ Idle(c, "sleep", exit)
    /\ UNCHANGED << chains, run, log, store, start_block, from_state, applied >>

\* store.get_chain_state(chain_id).await? is an error
GetChainStateErr(c) ==
    /\ Running(c) /\ pc[c] = "get_chain_state"
    /\ Return(c, "Err")

\* Some(ChainState { block }) => block
GetChainStateSome(c) ==
    /\ Running(c) /\ pc[c] = "get_chain_state"
    /\ chain_state[c].some
    /\ Launch(c, ResumeFrom(chain_state[c]), TRUE)

\* None => permitter.creation_block().await?
GetChainStateNone(c) ==
    /\ Running(c) /\ pc[c] = "get_chain_state"
    /\ ~chain_state[c].some
    /\ pc' = Set(pc, c, "creation_block")
    /\ UNCHANGED << chains, run, log, store, task, sleep_ms, start_block,
                    processed_block, cursor, batch_end, buffered,
                    retry_op, attempts, put_share,
                    state_updater_task, update_block, warned, from_state,
                    applied, last_exit >>

CreationBlockOk(c) ==
    /\ Running(c) /\ pc[c] = "creation_block"
    /\ Launch(c, CreationBlock, FALSE)

CreationBlockErr(c) ==
    /\ Running(c) /\ pc[c] = "creation_block"
    /\ Return(c, "Err")

\* ------------------------------------------------- the for_each closure
HasEvent(c) == Running(c) /\ pc[c] = "for_each" /\ cursor[c] <= Len(log[c])
NextEvent(c) == log[c][cursor[c]]

\* the closure returns: the stream moves to the next event
Handled(c) ==
    /\ cursor' = Set(cursor, c, cursor[c] + 1)
    /\ batch_end' = Set(batch_end, c, Flatten(log[c], batch_end[c], cursor[c] + 1))
    /\ buffered' = Set(buffered, c,
            Poll(log[c], batch_end[c], buffered[c], cursor[c] + 1))
    /\ applied' = Set(applied, c, applied[c] \cup {cursor[c]})
    /\ pc' = Set(pc, c, "for_each")
    /\ retry_op' = Set(retry_op, c, NoOp)
    /\ attempts' = Set(attempts, c, 0)
    /\ put_share' = Set(put_share, c, "none")

\* the closure reaches a retry(..).await with the write `op`
Retry(c, op) ==
    /\ pc' = Set(pc, c, op.op)
    /\ retry_op' = Set(retry_op, c, op)
    /\ attempts' = Set(attempts, c, 0)
    /\ put_share' = Set(put_share, c, "none")
    /\ UNCHANGED << cursor, batch_end, buffered, applied >>

\* one more attempt of the write has failed
Again(c, returned) ==
    /\ attempts' = Set(attempts, c, Min(attempts[c] + 1, MaxAttempts))
    /\ put_share' = Set(put_share, c, returned)
    /\ UNCHANGED << cursor, batch_end, buffered, applied, pc, retry_op >>

\* eth::EventKind::PolicyChange
OnPolicyChange(c) ==
    /\ HasEvent(c) /\ NextEvent(c).kind = "PolicyChange"
    /\ IF SkipPolicy(NextEvent(c).config)
       THEN Handled(c)
       ELSE Retry(c, [NoOp EXCEPT !.op = "update_verifier",
                                  !.identity = NextEvent(c).identity,
                                  !.config = BrotliDecompress(NextEvent(c).config).config,
                                  !.index = EventIndex(log[c], cursor[c])])
    /\ UNCHANGED << chains, run, log, store, task, sleep_ms, start_block,
                    processed_block, state_updater_task,
                    update_block, warned, from_state, last_exit >>

\* retry(|| store.update_verifier(..)): an attempt succeeds
UpdateVerifierOk(c) ==
    /\ Running(c) /\ pc[c] = "update_verifier"
    /\ verifiers' = update_verifier(verifiers, PermitterLocator(c),
                                    retry_op[c].identity, retry_op[c].config,
                                    retry_op[c].index)
    /\ Handled(c)
    /\ UNCHANGED << chains, run, log, chain_state, shares, task, sleep_ms,
                    start_block, processed_block,
                    state_updater_task, update_block, warned, from_state, last_exit >>

\* a failed attempt after which the write is given up
UpdateVerifierErrGivesUp(c) ==
    /\ Running(c) /\ pc[c] = "update_verifier"
    /\ Handled(c)
    /\ UNCHANGED << chains, run, log, store, task, sleep_ms, start_block,
                    processed_block, state_updater_task,
                    update_block, warned, from_state, last_exit >>

\* retry(|| store.update_verifier(..)): an attempt fails and is made again
UpdateVerifierErr(c) ==
    /\ Running(c) /\ pc[c] = "update_verifier"
    /\ Again(c, "none")
    /\ UNCHANGED << chains, run, log, store, task, sleep_ms, start_block,
                    processed_block, state_updater_task,
                    update_block, warned, from_state, last_exit >>

\* eth::EventKind::ProcessedBlock
OnProcessedBlock(c) ==
    /\ HasEvent(c) /\ NextEvent(c).kind = "ProcessedBlock"
    /\ processed_block' = Set(processed_block, c, TrackerStore(NextEvent(c)))
    /\ Handled(c)
    /\ UNCHANGED << chains, run, log, store, task, sleep_ms, start_block,
                    state_updater_task, update_block, warned, from_state,
                    last_exit >>

\* eth::EventKind::SharesPosted
OnSharesPosted(c) ==
    /\ HasEvent(c) /\ NextEvent(c).kind = "SharesPosted"
    /\ LET mine == maybe_my_share(NextEvent(c))
       IN  IF ~mine.some
           THEN Handled(c)
           ELSE Retry(c, [NoOp EXCEPT !.op = "put_share",
                                      !.identity = NextEvent(c).identity,
                                      !.share = [index |-> mine.index,
                                                 share |-> mine.share,
                                                 blinding |-> mine.blinding]])
    /\ UNCHANGED << chains, run, log, store, task, sleep_ms, start_block,
                    processed_block, state_updater_task,
                    update_block, warned, from_state, last_exit >>

\* what the retried closure does when store.put_share(..).await? is Ok(false):
\* anyhow::ensure!(put_share, "share not put") makes the attempt an error
NotPut(c) == Again(c, "false")

\* an attempt of put_share stores the share: Ok(true)
PutShareStored(c) ==
    /\ Running(c) /\ pc[c] = "put_share"
    /\ put_share_newly(shares, ShareId(c, retry_op[c].identity))
    /\ shares' = put_share_store(shares, ShareId(c, retry_op[c].identity),
                                 retry_op[c].share)
    /\ Handled(c)
    /\ UNCHANGED << chains, run, log, chain_state, verifiers, task, sleep_ms,
                    start_block, processed_block, state_updater_task,
                    update_block, warned, from_state, last_exit >>

\* an attempt of put_share finds the key present: Ok(false)
PutShareDuplicate(c) ==
    /\ Running(c) /\ pc[c] = "put_share"
    /\ ~put_share_newly(shares, ShareId(c, retry_op[c].identity))
    /\ shares' = put_share_store(shares, ShareId(c, retry_op[c].identity),
                                 retry_op[c].share)
    /\ NotPut(c)
    /\ UNCHANGED << chains, run, log, chain_state, verifiers, task, sleep_ms,
                    start_block, processed_block, state_updater_task,
                    update_block, warned, from_state, last_exit >>

\* permitter.registry().await? or store.put_share(..).await? is an error
PutShareErr(c) ==
    /\ Running(c) /\ pc[c] = "put_share"
    /\ Again(c, "Err")
    /\ UNCHANGED << chains, run, log, store, task, sleep_ms, start_block,
                    processed_block, state_updater_task, update_block, warned,
                    from_state, last_exit >>

\* an exit that writes the tracker's block as the checkpoint before it returns
StreamEndsFlushes(c) ==
    /\ Running(c) /\ pc[c] = "for_each" /\ cursor[c] > Len(log[c])
    /\ chain_state' = update_chain_state(chain_state, c, Some(processed_block[c]))
    /\ Idle(c, "sleep", "Ok")
    /\ UNCHANGED << chains, run, log, shares, verifiers, start_block,
                    from_state, applied >>

\* the stream has no further event: for_each ends, the updater is aborted
\* and sync_chain returns Ok(())
StreamEnds(c) ==
    /\ Running(c) /\ pc[c] = "for_each" /\ cursor[c] > Len(log[c])
    /\ Return(c, "Ok")

\* ------------------------------------------------------ state_updater_task
\* the spawned updater runs for as long as nothing aborts it
\* sleep(5 min) is over: the updater loads the tracker and calls the Store
UpdaterWakes(c) ==
    /\ state_updater_task[c] = "sleep"
    /\ state_updater_task' = Set(state_updater_task, c, "update_chain_state")
    /\ update_block' = Set(update_block, c, UpdaterLoad(c))
    /\ warned' = Set(warned, c, FALSE)
    /\ UNCHANGED << chains, run, log, store, task, sleep_ms, pc, start_block,
                    processed_block, cursor, batch_end, buffered,
                    retry_op, attempts, put_share,
                    from_state, applied, last_exit >>

\* store.update_chain_state(..).await is Ok
UpdaterWriteOk(c) ==
    /\ state_updater_task[c] = "update_chain_state"
    /\ chain_state' = update_chain_state(chain_state, c, Some(update_block[c]))
    /\ state_updater_task' = Set(state_updater_task, c, "sleep")
    /\ update_block' = Set(update_block, c, 0)
    /\ warned' = Set(warned, c, FALSE)
    /\ UNCHANGED << chains, run, log, shares, verifiers, task, sleep_ms, pc,
                    start_block, processed_block, cursor, batch_end, buffered,
                    retry_op, attempts,
                    put_share, from_state, applied, last_exit >>

\* an updater that ends at its first failed write
UpdaterWriteErrStops(c) ==
    /\ state_updater_task[c] = "update_chain_state"
    /\ state_updater_task' = Set(state_updater_task, c, "none")
    /\ update_block' = Set(update_block, c, 0)
    /\ warned' = Set(warned, c, TRUE)
    /\ UNCHANGED << chains, run, log, store, task, sleep_ms, pc, start_block,
                    processed_block, cursor, batch_end, buffered, retry_op,
                    attempts, put_share, from_state, applied, last_exit >>

\* store.update_chain_state(..).await is Err: warn!, and sleep again
UpdaterWriteErr(c) ==
    /\ state_updater_task[c] = "update_chain_state"
    /\ state_updater_task' = Set(state_updater_task, c, "sleep")
    /\ update_block' = Set(update_block, c, 0)
    /\ warned' = Set(warned, c, TRUE)
    /\ UNCHANGED << chains, run, log, store, task, sleep_ms, pc, start_block,
                    processed_block, cursor, batch_end, buffered,
                    retry_op, attempts, put_share,
                    from_state, applied, last_exit >>

\* ---------------------------------------------------------------------- run
\* `run`: the for loop spawns the loop of every chain, none of them awaited,
\* and `run` returns Ok(())
Run ==
    /\ run = "called"
    /\ task' = [c \in chains |-> "sync_chain"]
    /\ run' = "Ok"
    /\ UNCHANGED << chains, log, store, sleep_ms, pc, start_block,
                    processed_block, cursor, batch_end, buffered,
                    retry_op, attempts, put_share,
                    state_updater_task, update_block, warned, from_state, applied,
                    last_exit >>

\* a loop that calls sync_chain again only after an error
RelaunchAfterErr(c) ==
    /\ task[c] = "sleep"
    /\ last_exit[c] = "Err"
    /\ Idle(c, "sync_chain", "none")
    /\ UNCHANGED << chains, run, log, store, start_block, from_state, applied >>

\* sleep(Duration::from_millis(1000)) is over: the loop calls sync_chain again
Relaunch(c) ==
    /\ task[c] = "sleep"
    /\ Idle(c, "sync_chain", "none")
    /\ UNCHANGED << chains, run, log, store, start_block, from_state, applied >>

\* the process dies and is started again: every task is gone, the Store stays,
\* and `run` spawns the loops afresh
Crash ==
    /\ run = "Ok"
    /\ \E c \in chains : task[c] # "sync_chain" \/ pc[c] # "get_chain_state"
    /\ task' = [c \in chains |-> "sync_chain"]
    /\ sleep_ms' = [c \in chains |-> 0]
    /\ pc' = [c \in chains |-> "get_chain_state"]
    /\ start_block' = [c \in chains |-> 0]
    /\ processed_block' = [c \in chains |-> 0]
    /\ cursor' = [c \in chains |-> 0]
    /\ batch_end' = [c \in chains |-> 0]
    /\ buffered' = [c \in chains |-> 0]
    /\ retry_op' = [c \in chains |-> NoOp]
    /\ attempts' = [c \in chains |-> 0]
    /\ put_share' = [c \in chains |-> "none"]
    /\ state_updater_task' = [c \in chains |-> "none"]
    /\ update_block' = [c \in chains |-> 0]
    /\ warned' = [c \in chains |-> FALSE]
    /\ from_state' = [c \in chains |-> FALSE]
    /\ last_exit' = [c \in chains |-> "none"]
    /\ UNCHANGED << chains, run, log, store, applied >>

Next ==
    \/ Run
    \/ \E c \in chains : GetChainStateErr(c)
    \/ \E c \in chains : GetChainStateSome(c)
    \/ \E c \in chains : GetChainStateNone(c)
    \/ \E c \in chains : CreationBlockOk(c)
    \/ \E c \in chains : CreationBlockErr(c)
    \/ \E c \in chains : OnPolicyChange(c)
    \/ \E c \in chains : UpdateVerifierOk(c)
    \/ \E c \in chains : UpdateVerifierErr(c)
    \/ \E c \in chains : OnProcessedBlock(c)
    \/ \E c \in chains : OnSharesPosted(c)
    \/ \E c \in chains : PutShareStored(c)
    \/ \E c \in chains : PutShareDuplicate(c)
    \/ \E c \in chains : PutShareErr(c)
    \/ \E c \in chains : StreamEnds(c)
    \/ \E c \in chains : UpdaterWakes(c)
    \/ \E c \in chains : UpdaterWriteOk(c)
    \/ \E c \in chains : UpdaterWriteErr(c)
    \/ \E c \in chains : Relaunch(c)
    \/ Crash

Spec == Init /\ [][Next]_vars
SpecShares == InitShares /\ [][Next]_vars
SpecTwo == InitTwo /\ [][Next]_vars

\* The same program without process crashes, with the scheduling the runtime
\* and the collaborators give: every await that can complete does; a Store
\* call or an event-source call that is made again and again succeeds in the
\* end (strong fairness where only a later period or a later run makes the
\* call again, weak fairness for a retried write, which stays possible while
\* it is retried); a finite stream ends; the timers fire when their task
\* lives that long.
NextSync ==
    \/ Run
    \/ \E c \in chains : GetChainStateErr(c)
    \/ \E c \in chains : GetChainStateSome(c)
    \/ \E c \in chains : GetChainStateNone(c)
    \/ \E c \in chains : CreationBlockOk(c)
    \/ \E c \in chains : CreationBlockErr(c)
    \/ \E c \in chains : OnPolicyChange(c)
    \/ \E c \in chains : UpdateVerifierOk(c)
    \/ \E c \in chains : UpdateVerifierErr(c)
    \/ \E c \in chains : OnProcessedBlock(c)
    \/ \E c \in chains : OnSharesPosted(c)
    \/ \E c \in chains : PutShareStored(c)
    \/ \E c \in chains : PutShareDuplicate(c)
    \/ \E c \in chains : PutShareErr(c)
    \/ \E c \in chains : StreamEnds(c)
    \/ \E c \in chains : UpdaterWakes(c)
    \/ \E c \in chains : UpdaterWriteOk(c)
    \/ \E c \in chains : UpdaterWriteErr(c)
    \/ \E c \in chains : Relaunch(c)

Fairness ==
    /\ WF_vars(Run)
    /\ SF_vars(\E c \in chains : GetChainStateSome(c))
    /\ SF_vars(\E c \in chains : GetChainStateNone(c))
    /\ SF_vars(\E c \in chains : CreationBlockOk(c))
    /\ WF_vars(\E c \in chains : OnPolicyChange(c))
    /\ WF_vars(\E c \in chains : UpdateVerifierOk(c))
    /\ WF_vars(\E c \in chains : OnProcessedBlock(c))
    /\ WF_vars(\E c \in chains : OnSharesPosted(c))
    /\ WF_vars(\E c \in chains : PutShareStored(c))
    /\ WF_vars(\E c \in chains : StreamEnds(c))
    /\ WF_vars(\E c \in chains : UpdaterWakes(c))
    /\ SF_vars(\E c \in chains : UpdaterWriteOk(c))
    /\ WF_vars(\E c \in chains : Relaunch(c))

FairSpec == Init /\ [][NextSync]_vars /\ Fairness

\* ================================================================= claims
Positions(c) == 1..Len(log[c])
Unapplied(c) == Positions(c) \ applied[c]
Persisted(c) == chain_state[c].block

\* ---------------------------------------------------------------------- C1
\* C1: whenever sync_chain starts its pipeline, start_block is the block of
\* the persisted ChainState when there is one and the creation block when
\* there is none; the tracker starts at that block and the events are
\* requested from it. First launch and every restart alike.
C1_StartBlockIsCheckpointOrCreation ==
    [][\A c \in chains :
        (pc[c] \in {"get_chain_state", "creation_block"} /\ pc'[c] = "for_each")
        => LET expected == IF chain_state[c].some THEN chain_state[c].block
                           ELSE CreationBlock
           IN  /\ start_block'[c] = expected
               /\ processed_block'[c] = expected
               /\ cursor'[c] = StreamStart(log[c], expected)
               /\ state_updater_task'[c] = "sleep"
               /\ (pc[c] = "creation_block") = ~chain_state[c].some
               /\ from_state'[c] = chain_state[c].some]_vars

\* a restart that resumes from a checkpoint above the creation block
C1_Witness ==
    \E c \in chains :
        Consuming(c) /\ from_state[c] /\ start_block[c] > CreationBlock

\* ---------------------------------------------------------------------- C2
\* C2: a pipeline never requests events from a block above the persisted
\* checkpoint, and no event at or after the checkpoint whose handling has
\* not completed is behind the stream's position: each is still to be
\* delivered to the consumer.
C2_ResumeSkipsNothing ==
    \A c \in chains :
        Consuming(c) =>
            /\ chain_state[c].some => start_block[c] <= Persisted(c)
            /\ \A i \in Unapplied(c) :
                  (chain_state[c].some => log[c][i].block >= Persisted(c))
                  => i >= cursor[c]

\* a restart from a checkpoint that delivers again an event already handled,
\* with an event never handled still ahead
C2_Witness ==
    \E c \in chains :
        /\ Consuming(c) /\ from_state[c]
        /\ \E i \in applied[c] : i >= cursor[c]
        /\ \E i \in Unapplied(c) : i >= cursor[c] /\ log[c][i].kind # "ProcessedBlock"

\* ---------------------------------------------------------------------- C3
\* C3: the persisted checkpoint of a chain never decreases, whatever the
\* interleaving of consumer, updater, exits, restarts and crashes, and it
\* is never above the block of an event that has not been applied.
C3_CheckpointMonotonic ==
    /\ [][\A c \in chains :
            chain_state[c].some
            => chain_state'[c].some /\ chain_state'[c].block >= chain_state[c].block]_vars
    /\ [](\A c \in chains :
            chain_state[c].some
            => \A i \in Unapplied(c) : Persisted(c) <= log[c][i].block)

\* a restarted run has advanced the checkpoint it resumed from
C3_Witness ==
    \E c \in chains :
        Consuming(c) /\ from_state[c] /\ Persisted(c) > start_block[c]

\* ---------------------------------------------------------------------- C4
\* the highest block such that every event up to it has been handled
FullyProcessed(c, b) == \A i \in Positions(c) : log[c][i].block <= b => i \in applied[c]
HighestProcessed(c) ==
    CHOOSE b \in (CreationBlock - 1)..(CreationBlock + MaxLen) :
        /\ FullyProcessed(c, b)
        /\ \A b2 \in (CreationBlock - 1)..(CreationBlock + MaxLen) :
              FullyProcessed(c, b2) => b2 <= b

\* C4 as stated: the persisted block is at most the highest block whose
\* events have all been processed.
C4_NeverOverestimate ==
    \A c \in chains : chain_state[c].some => Persisted(c) <= HighestProcessed(c)

\* C4 amended: every event of a block below the persisted block has been
\* processed, so the persisted block is at most one above the highest fully
\* processed block; the persisted block's own events may be unprocessed.
C4_BelowCheckpointProcessed ==
    \A c \in chains : chain_state[c].some => Persisted(c) <= HighestProcessed(c) + 1

\* the first flush of a run has written the start block while an event of
\* that block is still unhandled
C4_Witness ==
    \E c \in chains :
        /\ chain_state[c].some
        /\ Consuming(c) /\ Persisted(c) = start_block[c]
        /\ \E i \in Unapplied(c) : log[c][i].block = Persisted(c)

\* ---------------------------------------------------------------------- C5
\* C5: once put_share has reported the share was not newly stored, the
\* handler is done with the event: it is not retrying the write.
C5_DuplicateIsSuccess ==
    \A c \in chains : put_share[c] = "false" => pc[c] # "put_share"

\* ---------------------------------------------------------------------- C6
\* the positions of a SharesPosted event that were encrypted to this node
MyPositions(ev) ==
    { i \in 0..(Len(ev.shares) - 1) :
        ev.shares[i + 1].tag = <<derive_shared_cipher(MySecret, ev.pk), ev.nonce>> }
Lowest(S) == CHOOSE i \in S : \A j \in S : i <= j
\* the triple of the lowest such position
ExpectedShare(ev) ==
    [index |-> Lowest(MyPositions(ev)),
     share |-> Plain(Lowest(MyPositions(ev)) + 1),
     blinding |-> ev.blindings[Lowest(MyPositions(ev)) + 1]]

\* C6: a SharesPosted event with no position for this node is skipped with
\* no write; otherwise the share handed to put_share, and any share in the
\* Store, is the triple of the lowest position that decrypts: that index,
\* that plaintext, that position's blinding.
C6_ShareOfLowestPosition ==
    /\ [][\A c \in chains :
            (/\ HasEvent(c) /\ NextEvent(c).kind = "SharesPosted"
             /\ \/ pc'[c] = "put_share"
                \/ pc'[c] = "for_each" /\ cursor'[c] = cursor[c] + 1)
            => IF MyPositions(NextEvent(c)) = {}
               THEN /\ pc'[c] = "for_each" /\ task'[c] = "sync_chain"
                    /\ shares' = shares
               ELSE /\ pc'[c] = "put_share"
                    /\ retry_op'[c].share = ExpectedShare(NextEvent(c))]_vars
    /\ [](\A id \in DOMAIN shares :
            \E c \in chains : \E i \in Positions(c) :
                /\ log[c][i].kind = "SharesPosted"
                /\ ShareId(c, log[c][i].identity) = id
                /\ MyPositions(log[c][i]) # {}
                /\ shares[id] = ExpectedShare(log[c][i]))

\* the share of an event whose first position is another node's and whose
\* second is this node's has been stored
C6_Witness ==
    \E c \in chains : \E i \in applied[c] :
        /\ log[c][i].kind = "SharesPosted"
        /\ MyPositions(log[c][i]) = {1}
        /\ ShareId(c, log[c][i].identity) \in DOMAIN shares
        /\ shares[ShareId(c, log[c][i].identity)].index = 1

\* ---------------------------------------------------------------------- C7
\* a payload that is the compression of no config
Corrupt(config_br) == \A config \in Configs : config_br # Compress(config)
CorruptPolicy(ev) == ev.kind = "PolicyChange" /\ Corrupt(ev.config)

\* C7: a PolicyChange event whose payload does not decompress leads to no
\* update_verifier and leaves the pipeline running: the closure returns and
\* the consumer goes on with the next event of the stream. (The only other
\* steps at such an event are the updater's, and the death of the process.)
C7_CorruptPolicySkipped ==
    /\ [][\A c \in chains :
            (HasEvent(c) /\ CorruptPolicy(NextEvent(c)))
            => /\ verifiers' = verifiers
               /\ task'[c] = "sync_chain"
               /\ \/ pc'[c] = "for_each" /\ cursor'[c] = cursor[c]
                  \/ /\ pc'[c] = "for_each" /\ cursor'[c] = cursor[c] + 1
                     /\ cursor[c] \in applied'[c]
                  \/ pc'[c] = "get_chain_state" /\ last_exit'[c] = "none"]_vars
    /\ [](\A k \in DOMAIN verifiers :
            ~CorruptPolicy(log[k.locator.chain][verifiers[k].index.log_index]))

\* a corrupt PolicyChange has been passed and the event after it handled
C7_Witness ==
    \E c \in chains : \E i \in applied[c] :
        /\ CorruptPolicy(log[c][i])
        /\ Consuming(c) /\ cursor[c] > i + 1
        /\ (i + 1) \in applied[c]

\* ---------------------------------------------------------------------- C8
BlockRange == CreationBlock..(CreationBlock + MaxLen)
MarkerApplied(c, n) ==
    \E i \in applied[c] : log[c][i].kind = "ProcessedBlock" /\ log[c][i].block = n

\* creation block 100; ProcessedBlock@100, SharesPosted@101 (two recipients,
\* this node the second), ProcessedBlock@102
Scenario ==
    << ProcessedBlock(CreationBlock),
       SharesPosted(CreationBlock + 1, TheIdentity, MineSecond.shares, MineSecond.blindings),
       ProcessedBlock(CreationBlock + 2) >>

\* C8: once the consumer has processed ProcessedBlock@N the persisted
\* checkpoint eventually reaches N; in the scenario it eventually is 102.
C8_CheckpointEventuallyPersisted ==
    /\ \A c \in Chains : \A n \in BlockRange :
          (c \in chains /\ MarkerApplied(c, n))
          ~> (c \in chains /\ chain_state[c].some /\ Persisted(c) >= n)
    /\ \A c \in Chains :
          (c \in chains /\ log[c] = Scenario)
          ~> (c \in chains /\ chain_state[c] = Some(CreationBlock + 2))

\* ---------------------------------------------------------------------- C9
\* a run resumed from a persisted checkpoint whose stream holds no event
EmptyResumedRun(c) ==
    /\ Consuming(c) /\ from_state[c]
    /\ StreamStart(log[c], start_block[c]) > Len(log[c])

\* what the Store holds for one chain
StoreOf(c) ==
    << chain_state[c],
       [id \in { k \in DOMAIN shares : k.identity.chain = c } |-> shares[id]],
       [k \in { k \in DOMAIN verifiers : k.locator.chain = c } |-> verifiers[k]] >>

\* C9 as stated: such a run issues no Store write at all.
C9_NoStoreWrite ==
    \A c \in chains :
        EmptyResumedRun(c)
        => pc[c] = "for_each" /\ state_updater_task[c] # "update_chain_state"

\* C9 amended: such a run calls neither put_share nor update_verifier, and
\* the only write it issues is the updater's update_chain_state with the
\* block B it resumed from, so what the Store holds does not change.
C9_StoreUnchanged ==
    /\ [][\A c \in chains : EmptyResumedRun(c) => StoreOf(c)' = StoreOf(c)]_vars
    /\ [](\A c \in chains :
            EmptyResumedRun(c)
            => /\ pc[c] = "for_each"
               /\ chain_state[c] = Some(start_block[c])
               /\ state_updater_task[c] = "update_chain_state"
                  => update_block[c] = start_block[c])

\* the updater of such a run is writing the checkpoint
C9_Witness ==
    \E c \in chains :
        EmptyResumedRun(c) /\ state_updater_task[c] = "update_chain_state"

\* --------------------------------------------------------------------- C10
\* C10: every return of sync_chain, Ok or Err, puts the loop to sleep for
\* the fixed 1000 ms, the only way out of the sleep is a new call of
\* sync_chain, and a sleeping loop is eventually running sync_chain again.
C10_AlwaysRelaunched ==
    /\ [][\A c \in chains :
            /\ (task[c] = "sync_chain" /\ task'[c] # "sync_chain")
               => /\ task'[c] = "sleep"
                  /\ sleep_ms'[c] = RestartDelayMs
                  /\ last_exit'[c] \in {"Ok", "Err"}
            /\ (task[c] = "sleep" /\ task'[c] # "sleep")
               => task'[c] = "sync_chain" /\ pc'[c] = "get_chain_state"]_vars
    /\ \A c \in Chains :
          (c \in chains /\ task[c] = "sleep")
          ~> (c \in chains /\ task[c] = "sync_chain" /\ pc[c] = "get_chain_state")

\* the loop sleeps after sync_chain returned Ok
C10_Witness ==
    \E c \in chains :
        task[c] = "sleep" /\ last_exit[c] = "Ok" /\ sleep_ms[c] = RestartDelayMs

\* --------------------------------------------------------------------- C11
\* everything that belongs to one chain: its task, its pipeline, its tracker,
\* its stream position, its updater, and what the Store holds for it
ChainOf(c) ==
    << task[c], sleep_ms[c], pc[c], start_block[c], processed_block[c],
       cursor[c], batch_end[c], buffered[c], retry_op[c], attempts[c],
       put_share[c],
       state_updater_task[c], update_block[c], warned[c], from_state[c],
       applied[c],
       last_exit[c], log[c], StoreOf(c) >>

\* C11: with two chains, a step that changes anything of one chain (a
\* failure, an exit, a restart, a write) changes nothing of the other chain,
\* the start and the death of the whole process aside; and `run` has returned
\* Ok as soon as the loops are spawned and stays so whatever the chains'
\* pipelines return.
C11_ChainsIsolated ==
    /\ [][\/ Run
          \/ Crash
          \/ \A c \in chains : \A d \in chains \ {c} :
                ChainOf(c)' # ChainOf(c) => ChainOf(d)' = ChainOf(d)]_vars
    /\ [](run \in {"called", "Ok"})
    /\ [](\A c \in chains : task[c] # "none" => run = "Ok")
    /\ [][run = "Ok" => run' = "Ok"]_vars

\* one chain's sync_chain has returned an error and its loop sleeps, while
\* the other chain has handled an event and persisted its checkpoint
C11_Witness ==
    \E c \in chains : \E d \in chains \ {c} :
        /\ task[c] = "sleep" /\ last_exit[c] = "Err"
        /\ Consuming(d) /\ applied[d] # {} /\ chain_state[d].some
        /\ run = "Ok"

\* --------------------------------------------------------------------- C12
\* the write of the retry at the event of position i is in the Store that
\* holds the verifiers vs and the shares sh
WrittenIn(vs, sh, c, i) ==
    LET ev == log[c][i]
        key == [locator |-> PermitterLocator(c), identity |-> ev.identity]
    IN  IF ev.kind = "PolicyChange"
        THEN key \in DOMAIN vs /\ vs[key].index.log_index >= i
        ELSE ShareId(c, ev.identity) \in DOMAIN sh
Written(c, i) == WrittenIn(verifiers, shares, c, i)

\* the batches the buffered stage has asked of the source beyond the batch
\* being flattened
Prefetched(c) == BatchesIn(log[c], batch_end[c] + 1, buffered[c])

\* C12: within a run the stream position moves one event at a time and only
\* when the handling of the event at that position has completed, its
\* retried write included; a retry holds the write of the event at the
\* position and keeps it until it succeeds; every event between the start of
\* the stream and the position has been handled, the event dispatched next
\* is of the batch being flattened, and at most one batch beyond that batch
\* has been asked of the source.
C12_InOrderOneAtATime ==
    /\ [][\A c \in chains :
            (Consuming(c) /\ task'[c] = "sync_chain" /\ pc'[c] # "get_chain_state")
            => /\ cursor'[c] \in {cursor[c], cursor[c] + 1}
               /\ cursor'[c] = cursor[c] + 1
                  => /\ pc'[c] = "for_each"
                     /\ cursor[c] \in applied'[c]
                     /\ pc[c] # "for_each"
                        => WrittenIn(verifiers', shares', c, cursor[c])
               /\ pc'[c] # "for_each"
                  => /\ cursor'[c] = cursor[c]
                     /\ pc[c] # "for_each" => retry_op'[c] = retry_op[c]
                     /\ pc'[c] = "update_verifier"
                        => /\ log[c][cursor[c]].kind = "PolicyChange"
                           /\ retry_op'[c].index = EventIndex(log[c], cursor[c])
                     /\ pc'[c] = "put_share"
                        => /\ log[c][cursor[c]].kind = "SharesPosted"
                           /\ retry_op'[c].identity = log[c][cursor[c]].identity]_vars
    /\ [](\A c \in chains :
            Consuming(c)
            => /\ \A i \in StreamStart(log[c], start_block[c])..(cursor[c] - 1) :
                     i \in applied[c]
               /\ cursor[c] <= Len(log[c]) + 1
               /\ pc[c] # "for_each" => cursor[c] <= Len(log[c])
               /\ cursor[c] <= Len(log[c])
                  => /\ cursor[c] <= batch_end[c]
                     /\ batch_end[c] = BatchEnd(log[c], cursor[c])
               /\ batch_end[c] <= buffered[c]
               /\ Cardinality(Prefetched(c)) <= 1)

\* the second event of a batch is about to be dispatched after the retried
\* write of the first one, and the source holds a further batch
C12_Witness ==
    \E c \in chains :
        /\ Consuming(c) /\ pc[c] = "for_each"
        /\ cursor[c] >= 2 /\ cursor[c] <= batch_end[c]
        /\ log[c][cursor[c] - 1].block = log[c][cursor[c]].block
        /\ log[c][cursor[c] - 1].kind = "SharesPosted"
        /\ Written(c, cursor[c] - 1)
        /\ batch_end[c] < Len(log[c])

\* --------------------------------------------------------------------- C13
Retrying(c) == Running(c) /\ pc[c] \in {"update_verifier", "put_share"}

\* C13: a retried write (update_verifier of a decompressed PolicyChange,
\* put_share of a decrypted SharesPosted) is never given up, however many
\* attempts have failed: the consumer leaves it only with the write in the
\* Store, and until then the stream position, the write it holds and the
\* tracker stay as they are and sync_chain does not return. With a Store
\* that accepts the write in the end (update_verifier answers Ok, put_share
\* stores the share), the write is made and the consumer is at the next
\* event.
C13_RetriedUntilSuccess ==
    /\ [][\A c \in chains :
            (Retrying(c) /\ run' = run /\ pc'[c] # "get_chain_state")
            => /\ task'[c] = "sync_chain"
               /\ processed_block'[c] = processed_block[c]
               /\ \/ /\ pc'[c] = pc[c]
                     /\ cursor'[c] = cursor[c]
                     /\ retry_op'[c] = retry_op[c]
                     /\ applied'[c] = applied[c]
                  \/ /\ pc'[c] = "for_each"
                     /\ cursor'[c] = cursor[c] + 1
                     /\ WrittenIn(verifiers', shares', c, cursor[c])]_vars
    /\ \A c \in Chains :
          (/\ c \in chains /\ Retrying(c)
           /\ pc[c] = "put_share"
              => put_share_newly(shares, ShareId(c, retry_op[c].identity)))
          ~> (/\ c \in chains /\ Consuming(c) /\ pc[c] = "for_each"
              /\ cursor[c] >= 2 /\ Written(c, cursor[c] - 1))

\* an attempt of a put_share that the Store has yet to accept has failed as
\* often as the counter counts, and a later event waits
C13_Witness ==
    \E c \in chains :
        /\ Retrying(c) /\ pc[c] = "put_share"
        /\ attempts[c] = MaxAttempts /\ put_share[c] = "Err"
        /\ put_share_newly(shares, ShareId(c, retry_op[c].identity))
        /\ cursor[c] < Len(log[c])

\* --------------------------------------------------------------------- C14
\* C14: once an attempt of put_share has reported that the share was not
\* newly stored, sync_chain returns with an error and the loop of `run`
\* sleeps before it starts the pipeline again.
C14_NotPutTerminatesPipeline ==
    \A c \in Chains :
        (c \in chains /\ put_share[c] = "false")
        ~> (c \in chains /\ task[c] = "sleep" /\ last_exit[c] = "Err")

\* --------------------------------------------------------------------- C15
\* C15: within one run of the pipeline no step lowers the tracker, and the
\* tracker is never below the run's start block; handling a ProcessedBlock
\* event in particular leaves it at or above both.
C15_TrackerNeverRegresses ==
    /\ [][\A c \in chains :
            (Consuming(c) /\ task'[c] = "sync_chain" /\ pc'[c] # "get_chain_state")
            => /\ processed_block'[c] >= processed_block[c]
               /\ processed_block'[c] >= start_block[c]
               /\ start_block'[c] = start_block[c]]_vars
    /\ [](\A c \in chains : Consuming(c) => processed_block[c] >= start_block[c])

\* a run resumed from a checkpoint has handled again the marker of its start
\* block, and later a marker that advanced the tracker
C15_Witness ==
    \E c \in chains :
        /\ Consuming(c) /\ from_state[c]
        /\ processed_block[c] > start_block[c]
        /\ \E i \in StreamStart(log[c], start_block[c])..(cursor[c] - 1) :
              log[c][i].kind = "ProcessedBlock" /\ log[c][i].block = start_block[c]

\* --------------------------------------------------------------------- C16
\* C16: an updater exists only while the consumer of its run is at work:
\* none is left when sync_chain has returned, by the end of the stream or by
\* a failed checkpoint recovery, and none while the next call recovers its
\* checkpoint; so every write of the checkpoint is made by the updater of
\* the run that is under way, with the block that updater loaded.
C16_UpdaterCancelledOnReturn ==
    /\ [](\A c \in chains : state_updater_task[c] # "none" => Consuming(c))
    /\ [][\A c \in chains :
            /\ (task[c] = "sync_chain" /\ task'[c] = "sleep")
               => state_updater_task'[c] = "none"
            /\ chain_state'[c] # chain_state[c]
               => /\ Consuming(c) /\ Consuming(c)'
                  /\ state_updater_task[c] = "update_chain_state"
                  /\ chain_state'[c] = Some(update_block[c])]_vars

\* sync_chain has returned at the end of the stream after its updater had
\* written the checkpoint, and no updater is left
C16_Witness ==
    \E c \in chains :
        /\ task[c] = "sleep" /\ last_exit[c] = "Ok"
        /\ chain_state[c].some
        /\ state_updater_task[c] = "none"

\* --------------------------------------------------------------------- C17
\* what the consumer of a chain holds
ConsumerOf(c) ==
    << task[c], pc[c], cursor[c], processed_block[c], retry_op[c], applied[c] >>

\* C17: a checkpoint write of the updater that fails leaves the Store and
\* the consumer as they are and puts the updater to sleep: it is not made
\* again at once. A write is attempted only out of the sleep, with the value
\* the tracker has at that moment. The updater ends only when sync_chain
\* returns at the end of the stream (or the process dies), and while it
\* lives a sleeping updater always comes to its next attempt.
C17_FailedFlushWaitsForNextPeriod ==
    /\ [](\A c \in chains :
            warned[c] => state_updater_task[c] = "sleep" /\ Consuming(c))
    /\ [][\A c \in chains :
            /\ (/\ state_updater_task[c] = "update_chain_state"
                /\ state_updater_task'[c] # "update_chain_state"
                /\ task'[c] = "sync_chain" /\ pc'[c] # "get_chain_state")
               => /\ state_updater_task'[c] = "sleep"
                  /\ ConsumerOf(c)' = ConsumerOf(c)
                  /\ \/ ~warned'[c] /\ chain_state'[c] = Some(update_block[c])
                     \/ warned'[c] /\ chain_state'[c] = chain_state[c]
            /\ (/\ state_updater_task'[c] = "update_chain_state"
                /\ state_updater_task[c] # "update_chain_state")
               => /\ state_updater_task[c] = "sleep"
                  /\ update_block'[c] = processed_block[c]
                  /\ chain_state'[c] = chain_state[c]
                  /\ ConsumerOf(c)' = ConsumerOf(c)
            /\ (state_updater_task[c] # "none" /\ state_updater_task'[c] = "none")
               => \/ /\ pc[c] = "for_each" /\ cursor[c] > Len(log[c])
                     /\ task'[c] = "sleep" /\ last_exit'[c] = "Ok"
                  \/ task'[c] = "sync_chain" /\ pc'[c] = "get_chain_state"]_vars
    /\ \A c \in Chains :
          (c \in chains /\ state_updater_task[c] = "sleep")
          ~> (c \in chains /\ state_updater_task[c] # "sleep")

\* the updater sleeps after a failed write while the consumer, which has
\* advanced the tracker, is about to handle a further event
C17_Witness ==
    \E c \in chains :
        /\ warned[c] /\ state_updater_task[c] = "sleep"
        /\ ~chain_state[c].some
        /\ pc[c] = "for_each" /\ cursor[c] <= Len(log[c])
        /\ processed_block[c] > start_block[c]

\* --------------------------------------------------------------------- C18
\* the pipeline of c is at work before and after the step
StaysInRun(c) ==
    /\ Consuming(c)
    /\ task'[c] = "sync_chain"
    /\ pc'[c] \in {"for_each", "update_verifier", "put_share"}

\* C18: within a run the tracker changes only in the step in which the
\* consumer handles a ProcessedBlock event, which sets it to that event's
\* block and touches nothing of the Store; the steps that handle a
\* PolicyChange or a SharesPosted event, the attempts of their writes, and
\* every step of the updater leave the tracker as it is. (Outside a run the
\* tracker is created with the start block and dropped at the return.)
C18_TrackerWrittenOnlyOnProcessedBlock ==
    [][\A c \in chains :
        /\ processed_block'[c] # processed_block[c]
           => \/ /\ StaysInRun(c)
                 /\ HasEvent(c) /\ NextEvent(c).kind = "ProcessedBlock"
                 /\ processed_block'[c] = NextEvent(c).block
                 /\ cursor'[c] = cursor[c] + 1
                 /\ state_updater_task'[c] = state_updater_task[c]
              \/ /\ pc[c] \in {"get_chain_state", "creation_block"}
                 /\ pc'[c] = "for_each"
                 /\ processed_block'[c] = start_block'[c]
              \/ /\ Consuming(c) /\ ~StaysInRun(c)
                 /\ processed_block'[c] = 0
        /\ (/\ StaysInRun(c) /\ HasEvent(c)
            /\ NextEvent(c).kind = "ProcessedBlock"
            /\ cursor'[c] # cursor[c])
           => /\ store' = store
              /\ pc'[c] = "for_each" /\ retry_op'[c] = NoOp
              /\ processed_block'[c] = NextEvent(c).block
        /\ (/\ StaysInRun(c) /\ HasEvent(c)
            /\ NextEvent(c).kind \in {"PolicyChange", "SharesPosted"})
           => processed_block'[c] = processed_block[c]
        /\ (StaysInRun(c) /\ Retrying(c))
           => processed_block'[c] = processed_block[c]
        /\ (StaysInRun(c) /\ state_updater_task'[c] # state_updater_task[c])
           => processed_block'[c] = processed_block[c]]_vars

\* a share and a policy have been written and the updater has written the
\* checkpoint with the tracker still at the start block, and then a marker
\* has advanced the tracker
C18_Witness ==
    \E c \in chains :
        /\ Consuming(c) /\ chain_state[c] = Some(start_block[c])
        /\ processed_block[c] > start_block[c]
        /\ \E i \in StreamStart(log[c], start_block[c])..(cursor[c] - 1) :
              /\ log[c][i].kind \in {"PolicyChange", "SharesPosted"}
              /\ Written(c, i)
        /\ log[c][cursor[c] - 1].kind = "ProcessedBlock"
        /\ log[c][cursor[c] - 1].block = processed_block[c]

\* --------------------------------------------------------------------- C19
\* block b is the start block of the run of c, or the block of a
\* ProcessedBlock event this run has handled, every event up to that marker
\* handled too
Flushable(c, b) ==
    \/ b = start_block[c]
    \/ \E i \in StreamStart(log[c], start_block[c])..(cursor[c] - 1) :
          /\ log[c][i].kind = "ProcessedBlock" /\ log[c][i].block = b
          /\ \A j \in 1..i : j \in applied[c]

\* C19: the block the updater has loaded for a write, and every block that
\* becomes the persisted checkpoint, is the start block of the run under way
\* or the block of a ProcessedBlock event that run has already handled, with
\* every event before that marker handled; nothing else is written.
C19_FlushedValueIsStartOrHandledMarker ==
    /\ [](\A c \in chains :
            state_updater_task[c] = "update_chain_state"
            => Consuming(c) /\ Flushable(c, update_block[c]))
    /\ [][\A c \in chains :
            chain_state'[c] # chain_state[c]
            => /\ chain_state'[c].some
               /\ Consuming(c) /\ Flushable(c, chain_state'[c].block)]_vars

\* the updater is writing the block of a marker above the start block while
\* the consumer is at a later event
C19_Witness ==
    \E c \in chains :
        /\ Consuming(c) /\ state_updater_task[c] = "update_chain_state"
        /\ update_block[c] > start_block[c]
        /\ cursor[c] <= Len(log[c])
        /\ log[c][cursor[c]].block > update_block[c]

\* --------------------------------------------------------------------- C20
\* the checkpoint the last pipeline of c found when it started
StartedFrom(c) == IF from_state[c] THEN Some(start_block[c]) ELSE None

\* C20: the step in which sync_chain returns writes nothing to the Store,
\* and nothing writes the checkpoint while the loop sleeps or the next call
\* recovers its checkpoint: the checkpoint changes only by a write of the
\* updater of a run under way. So the checkpoint a run leaves is the one of
\* its last flush, and when a run has left the checkpoint as it found it
\* (absent, if it started from the creation block), the next run starts from
\* the same start block.
C20_ExitNeverWritesCheckpoint ==
    [][\A c \in chains :
        /\ (task[c] = "sync_chain" /\ task'[c] = "sleep") => store' = store
        /\ (task[c] = "sleep" \/ pc[c] \in {"get_chain_state", "creation_block"})
           => chain_state'[c] = chain_state[c]
        /\ chain_state'[c] # chain_state[c]
           => /\ state_updater_task[c] = "update_chain_state"
              /\ state_updater_task'[c] = "sleep"
              /\ StaysInRun(c)
        /\ (/\ pc[c] \in {"get_chain_state", "creation_block"}
            /\ pc'[c] = "for_each"
            /\ start_block[c] # 0
            /\ chain_state[c] = StartedFrom(c))
           => /\ start_block'[c] = start_block[c]
              /\ from_state'[c] = from_state[c]
              /\ cursor'[c] = StreamStart(log[c], start_block[c])]_vars

\* a run that started from the creation block has handled events and ended
\* with the stream, no checkpoint has ever been written, and the next run
\* has started from the creation block again
C20_Witness ==
    \E c \in chains :
        /\ Consuming(c) /\ ~from_state[c] /\ ~chain_state[c].some
        /\ start_block[c] = CreationBlock
        /\ cursor[c] = StreamStart(log[c], start_block[c])
        /\ applied[c] # {}
        /\ \E i \in applied[c] : log[c][i].kind = "ProcessedBlock"

====
